---- MODULE Spec2Model ----
(***************************************************************************)
(* TF-IDF lexical index (VectorStore) of the chatbot repository:           *)
(* documents, vocabulary, idf_scores, the JSON snapshot file, and the      *)
(* operations add_documents, similarity_search, clear_collection,          *)
(* delete_collection, search_by_metadata and construction (_load_data);    *)
(* the chunker (DocumentProcessor: extract_text, create_chunks) and the    *)
(* facade over both (RAGSystem: add_document, query).                      *)
(*                                                                         *)
(* Spec is the index under batches of chunks and file faults, RagSpec the  *)
(* facade over files and questions, ChunkerSpec create_chunks applied to   *)
(* one text, SessionSpec two index instances on one collection, and        *)
(* FilterSpec the index under metadata searches.                           *)
(*                                                                         *)
(* Texts are sequences of one-character strings.  Floats are modelled      *)
(* exactly where the code's result is exact (ln 1 = 0, zero magnitudes)    *)
(* and by a fixed-point logarithm elsewhere; a cosine similarity is kept   *)
(* as the reduced fraction of its square, which orders as the cosine does  *)
(* because no weight is negative.                                          *)
(***************************************************************************)
EXTENDS Integers, Sequences, FiniteSets, TLC

VARIABLES documents, vocabulary, idf_scores, snapshot, uuid_counter, peer,
          op, arg, ret

vars == <<documents, vocabulary, idf_scores, snapshot, uuid_counter, peer,
          op, arg, ret>>

store == <<documents, vocabulary, idf_scores>>

(***************************************************************************)
(* Bounds                                                                  *)
(***************************************************************************)
\* identifiers handed out over one behaviour (caps the number of insertions)
MaxUuid == 2
\* chunks per batch
MaxBatch == 2

(***************************************************************************)
(* Characters and texts                                                    *)
(***************************************************************************)
UpperSeq == <<"A","B","C","D","E","F","G","H","I","J","K","L","M",
              "N","O","P","Q","R","S","T","U","V","W","X","Y","Z">>
LowerSeq == <<"a","b","c","d","e","f","g","h","i","j","k","l","m",
              "n","o","p","q","r","s","t","u","v","w","x","y","z">>
Letters == {LowerSeq[i] : i \in 1..26} \cup {UpperSeq[i] : i \in 1..26}
Digits == {"0","1","2","3","4","5","6","7","8","9"}
Whitespace == {" ", "\t", "\n"}

Range(s) == {s[i] : i \in DOMAIN s}

\* str.lower() on one character
LowerChar(ch) ==
    IF \E i \in 1..26 : UpperSeq[i] = ch
    THEN LowerSeq[CHOOSE i \in 1..26 : UpperSeq[i] = ch]
    ELSE ch

\* str.lower()
Lower(text) == [i \in DOMAIN text |-> LowerChar(text[i])]

\* "not s.strip()": the text is empty or whitespace only
IsBlank(text) == \A i \in DOMAIN text : text[i] \in Whitespace

\* \w of the regular expression: letters, digits, underscore
WordChars == Letters \cup Digits \cup {"_"}
IsWordChar(ch) == ch \in WordChars

S1 == <<"S", "a", "f", "e", "t", "y", " ", "p", "r", "o", "t", "o", "c", "o", "l", "s", " ", "r", "e", "q", "u", "i", "r", "e", " ", "P", "P", "E", " ", "a", "t", " ", "a", "l", "l", " ", "t", "i", "m", "e", "s", ".">>
Q1 == <<"W", "h", "a", "t", " ", "P", "P", "E", " ", "i", "s", " ", "r", "e", "q", "u", "i", "r", "e", "d", "?">>
T3 == <<"c", "a", "t", " ", "d", "o", "g", " ", "f", "o", "x", " ", "h", "e", "n", " ", "o", "w", "l", " ", "p", "i", "g">>
Q5 == <<"S", "a", "f", "e", "t", "y", " ", "d", "o", "g", " ", "d", "o", "g">>
Q3 == <<"i", "s", " ", "a", "t", " ", "1", "2">>
Q4 == <<"S", "a", "f", "e", "t", "y", " ", "d", "o", "g">>
BlankText == <<" ", " ", " ">>
EmptyText == <<>>
PPE == <<"P", "P", "E">>

\* the text occurs in s as a contiguous run ("PPE" in content)
Contains(s, part) ==
    \E i \in 0..(Len(s) - Len(part)) :
        \A j \in 1..Len(part) : s[i + j] = part[j]

(***************************************************************************)
(* Text helpers of the document processor                                  *)
(***************************************************************************)
\* ch * n
Rep(ch, n) == [i \in 1..n |-> ch]

\* the least element of a non-empty set of integers
Least(S) == CHOOSE x \in S : \A y \in S : x <= y

\* the first index from i on that holds no whitespace, Len(s) + 1 if none
FirstNonWs(s, i) ==
    CHOOSE j \in i..(Len(s) + 1) :
        /\ j > Len(s) \/ s[j] \notin Whitespace
        /\ \A k \in i..(j - 1) : s[k] \in Whitespace

\* the last index that holds no whitespace, 0 if none
LastNonWs(s) ==
    CHOOSE j \in 0..Len(s) :
        /\ j = 0 \/ s[j] \notin Whitespace
        /\ \A k \in (j + 1)..Len(s) : s[k] \in Whitespace

\* str.strip()
Strip(s) == SubSeq(s, FirstNonWs(s, 1), LastNonWs(s))

StartsWith(s, prefix) ==
    /\ Len(prefix) <= Len(s)
    /\ \A j \in 1..Len(prefix) : s[j] = prefix[j]

EndsWith(s, suffix) ==
    /\ Len(suffix) <= Len(s)
    /\ \A j \in 1..Len(suffix) : s[Len(s) - Len(suffix) + j] = suffix[j]

\* part occurs in s from index i on
MatchAt(s, i, part) ==
    /\ i + Len(part) - 1 <= Len(s)
    /\ \A j \in 1..Len(part) : s[i + j - 1] = part[j]

SentenceEnd == {".", "!", "?"}

\* the places where (?<=[.!?])\s+ matches: whitespace behind . ! or ?
Separators(s) ==
    {i \in 2..Len(s) : s[i] \in Whitespace /\ s[i - 1] \in SentenceEnd}

RECURSIVE SplitFrom(_, _)
\* the pieces of s from index start on; a separator is the whole
\* whitespace run
SplitFrom(s, start) ==
    LET ahead == {i \in Separators(s) : i >= start}
    IN  IF ahead = {} THEN <<SubSeq(s, start, Len(s))>>
        ELSE LET i == Least(ahead)
             IN  <<SubSeq(s, start, i - 1)>> \o SplitFrom(s, FirstNonWs(s, i))

\* re.split(r'(?<=[.!?])\s+', s)
SplitSentences(s) == SplitFrom(s, 1)

DigitSeq == <<"0","1","2","3","4","5","6","7","8","9">>
DigitValue(ch) == (CHOOSE k \in 1..10 : DigitSeq[k] = ch) - 1

RECURSIVE ParseInt(_, _)
\* int(digits), acc the value of the digits read so far
ParseInt(digits, acc) ==
    IF digits = <<>> THEN acc
    ELSE ParseInt(Tail(digits), 10 * acc + DigitValue(Head(digits)))

RECURSIVE Str(_)
\* str(n) of a non-negative integer
Str(n) == IF n < 10 THEN <<DigitSeq[n + 1]>>
          ELSE Str(n \div 10) \o <<DigitSeq[(n % 10) + 1]>>

FirstNonDigit(s, i) ==
    CHOOSE j \in i..(Len(s) + 1) :
        /\ j > Len(s) \/ s[j] \notin Digits
        /\ \A k \in i..(j - 1) : s[k] \in Digits

MarkerHead == <<"[", "P", "A", "G", "E", " ">>

\* a match of \[PAGE (\d+)\] starts at i: the index of its "]", else 0
MarkerClose(s, i) ==
    IF MatchAt(s, i, MarkerHead)
    THEN LET d == FirstNonDigit(s, i + Len(MarkerHead))
         IN  IF d > i + Len(MarkerHead) /\ d <= Len(s) /\ s[d] = "]" THEN d ELSE 0
    ELSE 0

\* the places where a marker starts
Markers(s) == {i \in 1..Len(s) : MarkerClose(s, i) > 0}

RECURSIVE PagesFrom(_, _)
\* the text from start up to the next marker, then for every marker its
\* digits and the text behind it
PagesFrom(s, start) ==
    LET ahead == {i \in Markers(s) : i >= start}
    IN  IF ahead = {} THEN <<SubSeq(s, start, Len(s))>>
        ELSE LET i == Least(ahead)
                 close == MarkerClose(s, i)
             IN  <<SubSeq(s, start, i - 1),
                   SubSeq(s, i + Len(MarkerHead), close - 1)>>
                 \o PagesFrom(s, close + 1)

\* re.split(r'\[PAGE (\d+)\]', s)
SplitPages(s) == PagesFrom(s, 1)


(***************************************************************************)
(* _tokenize: re.findall(r'\b[a-zA-Z]+\b', text.lower()), tokens longer    *)
(* than 2.  A match is a maximal run of word characters that consists of   *)
(* letters only: inside a run of \w there is no \b.                        *)
(***************************************************************************)
RunToken(run, letters_only) ==
    IF run # <<>> /\ letters_only THEN <<run>> ELSE <<>>

\* the places where a maximal run of word characters starts
RunStarts(s) ==
    {i \in 1..Len(s) : IsWordChar(s[i]) /\ (i = 1 \/ ~IsWordChar(s[i - 1]))}

\* the first index from i on that holds no word character, Len(s) + 1 if none
FirstNonWord(s, i) ==
    CHOOSE j \in i..(Len(s) + 1) :
        /\ j > Len(s) \/ ~IsWordChar(s[j])
        /\ \A k \in i..(j - 1) : IsWordChar(s[k])

RECURSIVE FindAll(_, _)
\* the matches in the runs that start at the places in starts, left to right
FindAll(s, starts) ==
    IF starts = {} THEN <<>>
    ELSE LET i == Least(starts)
             run == SubSeq(s, i, FirstNonWord(s, i) - 1)
         IN  RunToken(run, \A k \in DOMAIN run : run[k] \in Letters)
             \o FindAll(s, starts \ {i})

MinTokenLen == 2

tokenize(text) ==
    LET lowered == Lower(text)
    IN  SelectSeq(FindAll(lowered, RunStarts(lowered)),
                  LAMBDA t : Len(t) > MinTokenLen)

(***************************************************************************)
(* DocumentProcessor: create_chunks, _split_text_into_chunks,              *)
(* _get_overlap_text.  self is the processor: chunk_size, chunk_overlap.   *)
(***************************************************************************)
DefaultChunkSize == 800
DefaultChunkOverlap == 100
MinChunkLen == 50
NA == <<"N", "/", "A">>

\* DocumentProcessor(chunk_size, chunk_overlap)
Processor(size, overlap) == [chunk_size |-> size, chunk_overlap |-> overlap]

\* variant: the whole chunk is carried over
get_overlap_text_whole(self, text) == text

\* _get_overlap_text
get_overlap_text(self, text) ==
    IF Len(text) <= self.chunk_overlap THEN text
    ELSE LET overlap_start == Len(text) - self.chunk_overlap
             window == SubSeq(text, overlap_start + 1, Len(text))
             sentences == SplitSentences(window)
         IN  IF Len(sentences) > 1
             THEN (IF sentences[Len(sentences)] # <<>>
                   THEN sentences[Len(sentences)] ELSE window)
             ELSE window

RECURSIVE SplitLoop(_, _, _)
\* the for loop of _split_text_into_chunks over the rest of the sentences
SplitLoop(self, sentences, st) ==
    IF sentences = <<>> THEN st
    ELSE LET sentence == Strip(Head(sentences))
             sentence_length == Len(sentence)
         IN  IF sentence = <<>> THEN SplitLoop(self, Tail(sentences), st)
             ELSE IF /\ st.current_length + sentence_length > self.chunk_size
                     /\ st.current_chunk # <<>>
             THEN LET overlap_text == get_overlap_text(self, st.current_chunk)
                      seeded == overlap_text \o <<" ">> \o sentence
                  IN  SplitLoop(self, Tail(sentences),
                                [chunks |-> Append(st.chunks, Strip(st.current_chunk)),
                                 current_chunk |-> seeded,
                                 current_length |-> Len(seeded)])
             ELSE LET joined == IF st.current_chunk # <<>>
                                THEN st.current_chunk \o <<" ">> \o sentence
                                ELSE sentence
                  IN  SplitLoop(self, Tail(sentences),
                                [st EXCEPT !.current_chunk = joined,
                                           !.current_length =
                                               @ + sentence_length
                                                 + (IF joined # <<>> THEN 1 ELSE 0)])

\* _split_text_into_chunks
split_text_into_chunks(self, text) ==
    IF text = <<>> THEN <<>>
    ELSE LET st == SplitLoop(self, SplitSentences(text),
                             [chunks |-> <<>>, current_chunk |-> <<>>,
                              current_length |-> 0])
         IN  IF Strip(st.current_chunk) # <<>>
             THEN Append(st.chunks, Strip(st.current_chunk))
             ELSE st.chunks

\* variant: a segment of exactly the minimum length is kept (>= in place of >)
Retained_at_minimum(chunk_text) == Len(Strip(chunk_text)) >= MinChunkLen

\* "if len(chunk_text.strip()) > 50"
Retained(chunk_text) == Len(Strip(chunk_text)) > MinChunkLen

\* the chunk dictionaries of the retained segments; an integer page is
\* written as its numeral
ChunkDicts(segments, filename, page) ==
    LET kept == SelectSeq(segments, Retained)
    IN  [i \in DOMAIN kept |->
            [content |-> Strip(kept[i]),
             metadata |-> [filename |-> filename, page |-> page,
                           chunk_length |-> Len(kept[i])]]]

RECURSIVE PageLoop_newest_first(_, _, _, _)
\* variant: the chunks of a page go in front of those of the pages before it
PageLoop_newest_first(self, pages, k, filename) ==
    IF k > Len(pages) THEN <<>>
    ELSE IF k + 1 <= Len(pages)
         THEN LET page_num == ParseInt(pages[k], 0)
                  page_text == Strip(pages[k + 1])
                  here == IF page_text # <<>>
                          THEN ChunkDicts(split_text_into_chunks(self, page_text),
                                          filename, Str(page_num))
                          ELSE <<>>
              IN  PageLoop_newest_first(self, pages, k + 2, filename) \o here
         ELSE PageLoop_newest_first(self, pages, k + 2, filename)

RECURSIVE PageLoop(_, _, _, _)
\* the loop of create_chunks over the markers: pages[k] holds the digits of
\* a marker and pages[k + 1] the text behind it
PageLoop(self, pages, k, filename) ==
    IF k > Len(pages) THEN <<>>
    ELSE IF k + 1 <= Len(pages)
         THEN LET page_num == ParseInt(pages[k], 0)
                  page_text == Strip(pages[k + 1])
                  here == IF page_text # <<>>
                          THEN ChunkDicts(split_text_into_chunks(self, page_text),
                                          filename, Str(page_num))
                          ELSE <<>>
              IN  here \o PageLoop(self, pages, k + 2, filename)
         ELSE PageLoop(self, pages, k + 2, filename)

\* create_chunks
create_chunks(self, text, filename) ==
    IF text = <<>> THEN <<>>
    ELSE LET pages == SplitPages(text)
             chunks == PageLoop(self, pages, 2, filename)
         IN  IF chunks = <<>>
             THEN ChunkDicts(split_text_into_chunks(self, text), filename, NA)
             ELSE chunks


(***************************************************************************)
(* Text cleaning: DocumentProcessor._clean_text and utils.clean_text       *)
(***************************************************************************)
\* the characters the cleaning keeps besides \w and \s
KeptPunctuation ==
    {".", ",", "!", "?", ";", ":", "-", "(", ")", "[", "]", "{", "}", "\"",
     "'", "/", "&", "%", "$", "#", "@", "+", "=", "*"}

KeptChars == WordChars \cup Whitespace \cup KeptPunctuation

\* re.sub(r'\s+', ' ', s): every whitespace run becomes one space
CollapseWhitespace(s) ==
    LET marked == [i \in DOMAIN s |->
                      [ch |-> IF s[i] \in Whitespace THEN " " ELSE s[i],
                       drop |-> i > 1 /\ s[i] \in Whitespace
                                      /\ s[i - 1] \in Whitespace]]
        kept == SelectSeq(marked, LAMBDA m : ~m.drop)
    IN  [i \in DOMAIN kept |-> kept[i].ch]

\* re.sub(r'[^\w\s...]', ' ', s): a character outside the kept ones becomes
\* a space
ReplaceSpecial(s) ==
    [i \in DOMAIN s |->
        IF s[i] \in KeptChars THEN s[i] ELSE " "]

\* re.sub(r'([.!?]){2,}', r'\1', s): of a run of . ! ? the last one stays
CollapsePunctuation(s) ==
    LET marked == [i \in DOMAIN s |->
                      [ch |-> s[i],
                       drop |-> s[i] \in SentenceEnd /\ i < Len(s)
                                   /\ s[i + 1] \in SentenceEnd]]
        kept == SelectSeq(marked, LAMBDA m : ~m.drop)
    IN  [i \in DOMAIN kept |-> kept[i].ch]

\* DocumentProcessor._clean_text.  The first substitution rewrites
\* whitespace inside whitespace runs, which the second collapses; the
\* replace calls rewrite '"' to itself and the text , "'").replace( to "'",
\* which no text here contains
processor_clean_text(text) ==
    IF text = <<>> THEN <<>>
    ELSE Strip(ReplaceSpecial(CollapseWhitespace(text)))

\* utils.clean_text
clean_text(text) ==
    IF text = <<>> THEN <<>>
    ELSE Strip(CollapsePunctuation(ReplaceSpecial(CollapseWhitespace(text))))

(***************************************************************************)
(* DocumentProcessor.extract_text.  A file is its name, whether it can be  *)
(* opened and read as a PDF, and its pages; a page is the text             *)
(* page.extract_text() gives, or raises.                                   *)
(***************************************************************************)
\* the literal of _get_sample_text, shortened: of each of its three pages
\* the marker, the heading and the first lines that follow
SampleRaw ==
    <<"\n", " ", " ", " ", " ", " ", " ", " ", " ", "[", "P", "A", "G", "E",
      " ", "1", "]", "\n", " ", " ", " ", " ", " ", " ", " ", " ", "P", "A",
      "V", "E", "S", " ", "T", "E", "C", "H", "N", "O", "L", "O", "G", "I",
      "E", "S", " ", "-", " ", "C", "O", "M", "P", "A", "N", "Y", " ", "O",
      "V", "E", "R", "V", "I", "E", "W", "\n", " ", " ", " ", " ", " ", " ",
      " ", " ", "\n", " ", " ", " ", " ", " ", " ", " ", " ", "P", "a", "v",
      "e", "s", " ", "T", "e", "c", "h", "n", "o", "l", "o", "g", "i", "e",
      "s", " ", "i", "s", " ", "a", " ", "l", "e", "a", "d", "i", "n", "g",
      " ", "c", "o", "n", "s", "t", "r", "u", "c", "t", "i", "o", "n", " ",
      "a", "n", "d", " ", "i", "n", "f", "r", "a", "s", "t", "r", "u", "c",
      "t", "u", "r", "e", " ", "c", "o", "m", "p", "a", "n", "y", " ", "s",
      "p", "e", "c", "i", "a", "l", "i", "z", "i", "n", "g", " ", "i", "n",
      " ", "\n", " ", " ", " ", " ", " ", " ", " ", " ", "r", "o", "a", "d",
      " ", "c", "o", "n", "s", "t", "r", "u", "c", "t", "i", "o", "n", ",",
      " ", "b", "r", "i", "d", "g", "e", " ", "b", "u", "i", "l", "d", "i",
      "n", "g", ",", " ", "a", "n", "d", " ", "u", "r", "b", "a", "n", " ",
      "d", "e", "v", "e", "l", "o", "p", "m", "e", "n", "t", " ", "p", "r",
      "o", "j", "e", "c", "t", "s", ".", " ", "F", "o", "u", "n", "d", "e",
      "d", " ", "i", "n", " ", "2", "0", "1", "0", ",", " ", "\n", " ", " ",
      " ", " ", " ", " ", " ", " ", "[", "P", "A", "G", "E", " ", "2", "]",
      "\n", " ", " ", " ", " ", " ", " ", " ", " ", "S", "A", "F", "E", "T",
      "Y", " ", "P", "R", "O", "T", "O", "C", "O", "L", "S", "\n", " ", " ",
      " ", " ", " ", " ", " ", " ", "\n", " ", " ", " ", " ", " ", " ", " ",
      " ", "S", "a", "f", "e", "t", "y", " ", "i", "s", " ", "o", "u", "r",
      " ", "t", "o", "p", " ", "p", "r", "i", "o", "r", "i", "t", "y", " ",
      "a", "t", " ", "P", "a", "v", "e", "s", " ", "T", "e", "c", "h", "n",
      "o", "l", "o", "g", "i", "e", "s", ".", " ", "A", "l", "l", " ", "e",
      "m", "p", "l", "o", "y", "e", "e", "s", " ", "m", "u", "s", "t", " ",
      "f", "o", "l", "l", "o", "w", " ", "t", "h", "e", "s", "e", " ", "\n",
      " ", " ", " ", " ", " ", " ", " ", " ", "e", "s", "s", "e", "n", "t",
      "i", "a", "l", " ", "s", "a", "f", "e", "t", "y", " ", "p", "r", "o",
      "t", "o", "c", "o", "l", "s", ":", "\n", " ", " ", " ", " ", " ", " ",
      " ", " ", "[", "P", "A", "G", "E", " ", "3", "]", "\n", " ", " ", " ",
      " ", " ", " ", " ", " ", "P", "R", "O", "J", "E", "C", "T", " ", "M",
      "A", "N", "A", "G", "E", "M", "E", "N", "T", " ", "G", "U", "I", "D",
      "E", "L", "I", "N", "E", "S", "\n", " ", " ", " ", " ", " ", " ", " ",
      " ", "\n", " ", " ", " ", " ", " ", " ", " ", " ", "E", "f", "f", "e",
      "c", "t", "i", "v", "e", " ", "p", "r", "o", "j", "e", "c", "t", " ",
      "m", "a", "n", "a", "g", "e", "m", "e", "n", "t", " ", "i", "s", " ",
      "c", "r", "u", "c", "i", "a", "l", " ", "f", "o", "r", " ", "s", "u",
      "c", "c", "e", "s", "s", "f", "u", "l", " ", "d", "e", "l", "i", "v",
      "e", "r", "y", " ", "o", "f", " ", "i", "n", "f", "r", "a", "s", "t",
      "r", "u", "c", "t", "u", "r", "e", " ", "p", "r", "o", "j", "e", "c",
      "t", "s", ".", "\n", " ", " ", " ", " ", " ", " ", " ", " ">>

\* _get_sample_text
get_sample_text == processor_clean_text(SampleRaw)

RECURSIVE PagesText(_, _)
\* the loop over pdf_reader.pages: page is the number of the first of pages
PagesText(pages, page) ==
    IF pages = <<>> THEN <<>>
    ELSE LET page_text == Head(pages).text
             marked == IF ~Head(pages).raises /\ page_text # <<>>
                       THEN <<"\n">> \o MarkerHead \o Str(page) \o <<"]", "\n">>
                            \o page_text \o <<"\n">>
                       ELSE <<>>
         IN  marked \o PagesText(Tail(pages), page + 1)

extract_text(file) ==
    IF ~file.readable THEN get_sample_text
    ELSE LET text_content == PagesText(file.pages, 1)
         IN  IF IsBlank(text_content) THEN get_sample_text
             ELSE processor_clean_text(text_content)

(***************************************************************************)
(* Files, questions and the answer of the generator                        *)
(***************************************************************************)
PageSafety ==
    <<"S", "a", "f", "e", "t", "y", " ", "p", "r", "o", "t", "o", "c", "o",
      "l", "s", " ", "r", "e", "q", "u", "i", "r", "e", " ", "P", "P", "E",
      " ", "a", "t", " ", "a", "l", "l", " ", "t", "i", "m", "e", "s", "!",
      "!", " ", " ", "H", "a", "r", "d", " ", "h", "a", "t", "s", " ", "a",
      "r", "e", " ", "~", " ", "m", "a", "n", "d", "a", "t", "o", "r", "y",
      "\n", "o", "n", " ", "e", "v", "e", "r", "y", " ", "s", "i", "t", "e",
      ".">>
PageRoads ==
    <<"R", "o", "a", "d", "s", " ", "n", "e", "e", "d", " ", "r", "e", "p",
      "a", "i", "r", " ", "e", "v", "e", "r", "y", " ", "y", "e", "a", "r",
      ".">>
PageBridges ==
    <<"B", "r", "i", "d", "g", "e", "s", " ", "n", "e", "e", "d", " ", "p",
      "a", "i", "n", "t", " ", "e", "v", "e", "r", "y", " ", "d", "e", "c",
      "a", "d", "e", ".">>
PageHello ==
    <<"H", "e", "l", "l", "o", " ", "w", "o", "r", "l", "d", ".">>
QSafety ==
    <<"W", "h", "a", "t", " ", "s", "a", "f", "e", "t", "y", " ", "e", "q",
      "u", "i", "p", "m", "e", "n", "t", " ", "i", "s", " ", "r", "e", "q",
      "u", "i", "r", "e", "d", "?">>
QProjects ==
    <<"s", "a", "f", "e", "t", "y", " ", "c", "o", "n", "s", "t", "r", "u",
      "c", "t", "i", "o", "n", " ", "p", "r", "o", "j", "e", "c", "t", "s">>
QShort ==
    <<"i", "s", " ", "i", "t">>
Answer ==
    <<"W", "e", "a", "r", " ", "P", "P", "E", ".">>
FileB ==
    <<"b", ".", "p", "d", "f">>
FileC ==
    <<"c", ".", "p", "d", "f">>
Unknown ==
    <<"U", "n", "k", "n", "o", "w", "n">>
DocumentLabel ==
    <<"[", "D", "o", "c", "u", "m", "e", "n", "t", " ">>
PageLabel ==
    <<",", " ", "P", "a", "g", "e", " ">>
Delimiter ==
    <<"\n", "-", "-", "-", "\n">>

FileA == <<"a", ".", "p", "d", "f">>

PdfPage(text) == [text |-> text, raises |-> FALSE]
\* a page whose extraction raises
BadPage == [text |-> <<>>, raises |-> TRUE]
PdfFile(name, pages) == [name |-> name, readable |-> TRUE, pages |-> pages]

\* a file that cannot be opened or is no PDF
FileUnreadable == [name |-> FileC, readable |-> FALSE, pages |-> <<>>]
\* a PDF without extractable text: a page without text and a page that raises
FileScanned == PdfFile(FileC, <<PdfPage(<<>>), BadPage>>)
\* one page of more than 300 and less than 800 characters
LongPage ==
    PageSafety \o <<"\n">> \o PageSafety \o <<"\n">> \o PageSafety
    \o <<"\n">> \o PageSafety
FileSafety == PdfFile(FileA, <<PdfPage(LongPage)>>)
\* two pages, each shorter than the minimum chunk length
FileShortPages == PdfFile(FileB, <<PdfPage(PageRoads), PdfPage(PageBridges)>>)
FileHello == PdfFile(FileB, <<PdfPage(PageHello)>>)
Files == {FileUnreadable, FileScanned, FileSafety, FileShortPages, FileHello}

\* DocumentProcessor(): the processor of the application
DefaultProcessor == Processor(DefaultChunkSize, DefaultChunkOverlap)

\* extract_text and create_chunks tabulated over the files
Extracted == [file \in Files |-> extract_text(file)]
ChunkTable ==
    [file \in Files |->
        create_chunks(DefaultProcessor, Extracted[file], file.name)]

Questions == {QSafety, QProjects, QShort, BlankText}

\* the texts the model stores and queries, and _tokenize tabulated over them
Texts == {S1, T3, Q1, Q3, Q4, Q5, BlankText, EmptyText} \cup Questions
TokenTable == [text \in Texts |-> tokenize(text)]
\* _tokenize: looked up for the texts above, computed for any other
Tokens(text) ==
    IF text \in DOMAIN TokenTable THEN TokenTable[text] ELSE tokenize(text)

(***************************************************************************)
(* Arithmetic                                                              *)
(***************************************************************************)
RECURSIVE SumOver(_, _)
SumOver(S, f) ==
    IF S = {} THEN 0
    ELSE LET x == CHOOSE y \in S : TRUE IN f[x] + SumOver(S \ {x}, f)

RECURSIVE GCD(_, _)
GCD(a, b) == IF b = 0 THEN a ELSE GCD(b, a % b)

\* a non-negative rational as a reduced fraction
Frac(n, d) == LET g == GCD(n, d) IN [num |-> n \div g, den |-> d \div g]
ZeroScore == [num |-> 0, den |-> 1]

\* n1/d1 > n2/d2 for non-negative fractions, by continued fractions
RECURSIVE FracGreater(_, _, _, _)
FracGreater(n1, d1, n2, d2) ==
    LET q1 == n1 \div d1
        q2 == n2 \div d2
        r1 == n1 % d1
        r2 == n2 % d2
    IN  IF q1 # q2 THEN q1 > q2
        ELSE IF r1 = 0 THEN FALSE
        ELSE IF r2 = 0 THEN TRUE
        ELSE FracGreater(d2, r2, d1, r1)

ScoreGreater(a, b) == FracGreater(a.num, a.den, b.num, b.den)

\* math.log in fixed point: 10 * ln(n), additive on products so that equal
\* ratios have equal logarithms, as total_docs / count has one float value
LnTable == <<0, 7, 11, 14, 16, 18, 19, 21>>
Log(total, count) == LnTable[total] - LnTable[count]

Count(t, tokens) == Cardinality({i \in DOMAIN tokens : tokens[i] = t})

(***************************************************************************)
(* Index computations                                                      *)
(***************************************************************************)
\* _calculate_tf: count / total_tokens, kept as the pair of the two
calculate_tf(tokens) ==
    [t \in Range(tokens) |-> [count |-> Count(t, tokens), total |-> Len(tokens)]]

RECURSIVE TokenSets(_)
\* doc_tokens = set(self._tokenize(doc['content'])) of every document, in
\* index order
TokenSets(docs) ==
    IF docs = <<>> THEN <<>>
    ELSE <<Range(Tokens(Head(docs).content))>> \o TokenSets(Tail(docs))

\* term_doc_count and the term -> ln(total_docs / count) table built from it
IdfOver(token_sets) ==
    LET total_docs == Len(token_sets)
        terms == UNION {token_sets[i] : i \in DOMAIN token_sets}
        term_doc_count(t) ==
            Cardinality({i \in DOMAIN token_sets : t \in token_sets[i]})
    IN  [t \in terms |-> Log(total_docs, term_doc_count(t))]

\* the table of _calculate_idf; every document is tokenized once, as in the
\* loop of the code (the token sets are bound as a value before the table
\* is built from them)
IdfTable(docs) ==
    CHOOSE table \in {IdfOver(token_sets) : token_sets \in {TokenSets(docs)}} :
        TRUE

\* _calculate_idf: leaves idf_scores alone when there are no documents
calculate_idf(docs, old_idf) ==
    IF docs = <<>> THEN old_idf ELSE IdfTable(docs)

\* _get_tfidf_vector: tf * idf for the tokens the idf table knows; the
\* weights share the denominator total_tokens
get_tfidf_vector(tokens, idf) ==
    LET tf == calculate_tf(tokens)
    IN  [den |-> Len(tokens),
         w   |-> [t \in Range(tokens) \cap DOMAIN idf |-> tf[t].count * idf[t]]]

\* _calculate_cosine_similarity, as the square of the cosine: the common
\* denominators of the two vectors cancel
calculate_cosine_similarity(vec1, vec2) ==
    LET all_terms == DOMAIN vec1.w \cup DOMAIN vec2.w
        both == DOMAIN vec1.w \cap DOMAIN vec2.w
        dot_product == SumOver(both, [t \in both |-> vec1.w[t] * vec2.w[t]])
        magnitude1 == SumOver(DOMAIN vec1.w, [t \in DOMAIN vec1.w |-> vec1.w[t] * vec1.w[t]])
        magnitude2 == SumOver(DOMAIN vec2.w, [t \in DOMAIN vec2.w |-> vec2.w[t] * vec2.w[t]])
    IN  IF all_terms = {} THEN ZeroScore
        ELSE IF magnitude1 = 0 \/ magnitude2 = 0 THEN ZeroScore
        ELSE Frac(dot_product * dot_product, magnitude1 * magnitude2)

(***************************************************************************)
(* Inputs                                                                  *)
(***************************************************************************)
\* chunk metadata; an integer page is written as its numeral
Meta(f, p) == [filename |-> f, page |-> p]

\* a chunk handed to add_documents; is_str = FALSE is a chunk whose content
\* is not a string (None), on which content.strip() raises
ChunkS1 == [content |-> S1, is_str |-> TRUE, metadata |-> Meta("a.pdf", "2")]
ChunkT3 == [content |-> T3, is_str |-> TRUE, metadata |-> Meta("b.pdf", "N/A")]
ChunkBlank == [content |-> BlankText, is_str |-> TRUE, metadata |-> Meta("b.pdf", "1")]
ChunkNone == [content |-> EmptyText, is_str |-> FALSE, metadata |-> Meta("b.pdf", "2")]
Chunks == {ChunkS1, ChunkT3, ChunkBlank, ChunkNone}

Batches == UNION {[1..n -> Chunks] : n \in 0..MaxBatch}

Queries == {Q1, Q3, Q4, Q5, BlankText, EmptyText}
DefaultTopK == 5
TopKs == {-1, 0, 1, DefaultTopK}

\* outcome of the file system call an operation makes; an outcome other than
\* "ok" is drawn only for a call that is made
SaveIO == {"ok", "open_error", "write_error"}
LoadIO == {"ok", "read_error"}
RemoveIO == {"ok", "remove_error"}

NoArg == [batch |-> <<>>, query |-> EmptyText, top_k |-> 0, io |-> "ok"]
Return(flag, results) == [flag |-> flag, results |-> results]

(***************************************************************************)
(* Snapshot file                                                           *)
(***************************************************************************)
EmptyDict == [t \in {} |-> 0]

RECURSIVE SetToList(_)
\* list(self.vocabulary): the elements in one order
SetToList(S) ==
    IF S = {} THEN <<>>
    ELSE LET x == CHOOSE y \in S : TRUE IN <<x>> \o SetToList(S \ {x})

MissingFile == [kind |-> "missing"]
\* a file that json.load rejects: truncated or otherwise not JSON
CorruptFile == [kind |-> "corrupt"]
\* the file json.dump writes; documents_ok = FALSE is a file whose documents
\* field is not a list (null, a number), vocabulary_ok = FALSE is a file whose
\* vocabulary field is not a list of strings (set() of it raises)
JsonFile(docs, vocab, idf) ==
    [kind |-> "json", documents |-> docs, documents_ok |-> TRUE,
     vocabulary |-> SetToList(vocab), vocabulary_ok |-> TRUE,
     idf_scores |-> idf]

\* _save_data: the file after the call; every exception is swallowed
save_data(docs, vocab, idf, file, io) ==
    IF io = "open_error" THEN file
    ELSE IF io = "write_error" THEN CorruptFile
    ELSE JsonFile(docs, vocab, idf)

\* _load_data on the freshly initialised fields: the three fields after it.
\* A documents field that is not a list is assigned as it is (line 32); the
\* file keeps <<>> in its place and documents_ok tells the two apart.
load_data(file, io) ==
    LET empty == [documents |-> <<>>, vocabulary |-> {}, idf_scores |-> EmptyDict]
    IN  IF file.kind = "missing" THEN empty
        ELSE IF io = "read_error" \/ file.kind = "corrupt" THEN empty
        ELSE IF ~file.vocabulary_ok
             THEN [empty EXCEPT !.documents = file.documents]
        ELSE [documents |-> file.documents,
              vocabulary |-> Range(file.vocabulary),
              idf_scores |-> file.idf_scores]

(***************************************************************************)
(* add_documents                                                           *)
(***************************************************************************)
RECURSIVE AddLoop_numbered_by_position(_, _)
\* variant: a chunk is identified by its position in the index
AddLoop_numbered_by_position(st, batch) ==
    IF batch = <<>> THEN st
    ELSE LET doc == Head(batch)
         IN  IF ~doc.is_str THEN [st EXCEPT !.raised = TRUE]
             ELSE IF IsBlank(doc.content)
                  THEN AddLoop_numbered_by_position(st, Tail(batch))
             ELSE LET doc_entry == [id |-> Len(st.documents) + 1,
                                    content |-> doc.content,
                                    metadata |-> doc.metadata,
                                    tokens |-> Tokens(doc.content)]
                  IN  AddLoop_numbered_by_position(
                          [st EXCEPT !.documents = Append(@, doc_entry),
                                     !.vocabulary = @ \cup Range(doc_entry.tokens),
                                     !.uuid = @ + 1,
                                     !.added_count = @ + 1],
                          Tail(batch))

RECURSIVE AddLoop(_, _)
\* the for loop of add_documents over the rest of the batch
AddLoop(st, batch) ==
    IF batch = <<>> THEN st
    ELSE LET doc == Head(batch)
         IN  IF ~doc.is_str THEN [st EXCEPT !.raised = TRUE]
             ELSE IF IsBlank(doc.content) THEN AddLoop(st, Tail(batch))
             ELSE LET doc_entry == [id |-> st.uuid,
                                    content |-> doc.content,
                                    metadata |-> doc.metadata,
                                    tokens |-> Tokens(doc.content)]
                  IN  AddLoop([st EXCEPT !.documents = Append(@, doc_entry),
                                         !.vocabulary = @ \cup Range(doc_entry.tokens),
                                         !.uuid = @ + 1,
                                         !.added_count = @ + 1],
                              Tail(batch))

\* the batch gets as far as _save_data: no chunk raises and one is kept
ReachesSave(batch) ==
    /\ \A i \in DOMAIN batch : batch[i].is_str
    /\ \E i \in DOMAIN batch : ~IsBlank(batch[i].content)

add_documents(batch, io) ==
    /\ uuid_counter + Len(batch) - 1 <= MaxUuid
    /\ io # "ok" => ReachesSave(batch)
    /\ op' = "add_documents"
    /\ UNCHANGED peer
    /\ arg' = [NoArg EXCEPT !.batch = batch, !.io = io]
    /\ IF batch = <<>>
       THEN /\ ret' = Return(FALSE, <<>>)
            /\ UNCHANGED <<store, snapshot, uuid_counter>>
       ELSE LET st == AddLoop([documents |-> documents, vocabulary |-> vocabulary,
                               uuid |-> uuid_counter, added_count |-> 0,
                               raised |-> FALSE], batch)
            IN  /\ documents' = st.documents
                /\ vocabulary' = st.vocabulary
                /\ uuid_counter' = st.uuid
                /\ IF ~st.raised /\ st.added_count > 0
                   THEN /\ idf_scores' = calculate_idf(st.documents, idf_scores)
                        /\ snapshot' = save_data(st.documents, st.vocabulary,
                                                 idf_scores', snapshot, io)
                        /\ ret' = Return(TRUE, <<>>)
                   ELSE /\ UNCHANGED <<idf_scores, snapshot>>
                        /\ ret' = Return(FALSE, <<>>)

(***************************************************************************)
(* similarity_search                                                       *)
(***************************************************************************)
RECURSIVE InsertDesc_ties_reversed(_, _)
\* variant: x goes in front of the elements of equal score (unstable sort)
InsertDesc_ties_reversed(sorted, x) ==
    IF sorted = <<>> THEN <<x>>
    ELSE IF ~ScoreGreater(Head(sorted).score, x.score) THEN <<x>> \o sorted
    ELSE <<Head(sorted)>> \o InsertDesc_ties_reversed(Tail(sorted), x)

RECURSIVE InsertDesc(_, _)
\* x goes behind every element whose score is not smaller than its own
InsertDesc(sorted, x) ==
    IF sorted = <<>> THEN <<x>>
    ELSE IF ScoreGreater(x.score, Head(sorted).score) THEN <<x>> \o sorted
    ELSE <<Head(sorted)>> \o InsertDesc(Tail(sorted), x)

RECURSIVE SortByScore(_)
\* list.sort(key=score, reverse=True): descending and stable
SortByScore(s) ==
    IF s = <<>> THEN <<>>
    ELSE InsertDesc(SortByScore(SubSeq(s, 1, Len(s) - 1)), s[Len(s)])

\* s[:k]
SliceTo(s, k) ==
    IF k >= 0 THEN SubSeq(s, 1, IF k < Len(s) THEN k ELSE Len(s))
    ELSE SubSeq(s, 1, Len(s) + k)

\* the score of one stored document against the query vector
Similarity(query_tfidf, doc, idf) ==
    calculate_cosine_similarity(query_tfidf, get_tfidf_vector(doc.tokens, idf))

\* variant: zero similarity passes the filter (>= in place of >)
Included_zero_passes(similarity) == similarity.num >= 0

\* "if similarity > 0"
Included(similarity) == similarity.num > 0

\* the loop over self.documents: the positive-similarity entries in index order
Similarities(query_tfidf, docs, idf) ==
    LET entry(i) == [content |-> docs[i].content,
                     metadata |-> docs[i].metadata,
                     score |-> Similarity(query_tfidf, docs[i], idf)]
        all == [i \in DOMAIN docs |-> entry(i)]
    IN  SelectSeq(all, LAMBDA e : Included(e.score))

\* variant: a query with nothing to search for matches the whole corpus
search_results_empty_query_matches_all(query, top_k, docs, idf) ==
    LET every == [i \in DOMAIN docs |-> [content |-> docs[i].content,
                                         metadata |-> docs[i].metadata,
                                         score |-> ZeroScore]]
    IN  IF IsBlank(query) \/ Tokens(query) = <<>> THEN SliceTo(every, top_k)
        ELSE SliceTo(SortByScore(Similarities(get_tfidf_vector(Tokens(query), idf),
                                              docs, idf)),
                     top_k)

search_results(query, top_k, docs, idf) ==
    IF IsBlank(query) THEN <<>>
    ELSE IF docs = <<>> THEN <<>>
    ELSE LET query_tokens == Tokens(query)
         IN  IF query_tokens = <<>> THEN <<>>
             ELSE SliceTo(SortByScore(Similarities(get_tfidf_vector(query_tokens, idf),
                                                   docs, idf)),
                          top_k)

\* variant: the tokens of the query enter the vocabulary
similarity_search_learning(query, top_k) ==
    /\ op' = "similarity_search"
    /\ UNCHANGED peer
    /\ arg' = [NoArg EXCEPT !.query = query, !.top_k = top_k]
    /\ ret' = Return(TRUE, search_results(query, top_k, documents, idf_scores))
    /\ vocabulary' = vocabulary \cup Range(Tokens(query))
    /\ UNCHANGED <<documents, idf_scores, snapshot, uuid_counter>>

similarity_search(query, top_k) ==
    /\ op' = "similarity_search"
    /\ UNCHANGED peer
    /\ arg' = [NoArg EXCEPT !.query = query, !.top_k = top_k]
    /\ ret' = Return(TRUE, search_results(query, top_k, documents, idf_scores))
    /\ UNCHANGED <<store, snapshot, uuid_counter>>

(***************************************************************************)
(* clear_collection, delete_collection, construction                       *)
(***************************************************************************)
clear_collection(io) ==
    /\ op' = "clear_collection"
    /\ UNCHANGED peer
    /\ arg' = [NoArg EXCEPT !.io = io]
    /\ documents' = <<>>
    /\ vocabulary' = {}
    /\ idf_scores' = EmptyDict
    /\ snapshot' = save_data(<<>>, {}, EmptyDict, snapshot, io)
    /\ ret' = Return(TRUE, <<>>)
    /\ UNCHANGED uuid_counter

delete_collection(io) ==
    /\ io # "ok" => snapshot.kind # "missing"
    /\ op' = "delete_collection"
    /\ UNCHANGED peer
    /\ arg' = [NoArg EXCEPT !.io = io]
    /\ IF snapshot.kind # "missing" /\ io = "remove_error"
       THEN /\ ret' = Return(FALSE, <<>>)
            /\ UNCHANGED <<store, snapshot>>
       ELSE /\ snapshot' = MissingFile
            /\ documents' = <<>>
            /\ vocabulary' = {}
            /\ idf_scores' = EmptyDict
            /\ ret' = Return(TRUE, <<>>)
    /\ UNCHANGED uuid_counter

\* an exception that leaves the operation: the caller gets no return value
Raised == [flag |-> FALSE, results |-> <<>>, raised |-> TRUE]

\* the log line of __init__ (line 24) takes len(self.documents) outside
\* every try: it raises when the load left a documents field without a length
init_raises(file, io) ==
    file.kind = "json" /\ io = "ok" /\ ~file.documents_ok

\* VectorStore(): a new instance on the same collection name; when __init__
\* raises there is no new instance and the caller keeps the one it had
Construct(io) ==
    /\ io # "ok" => snapshot.kind # "missing"
    /\ op' = "construct"
    /\ UNCHANGED peer
    /\ arg' = [NoArg EXCEPT !.io = io]
    /\ IF init_raises(snapshot, io)
       THEN /\ ret' = Raised
            /\ UNCHANGED store
       ELSE /\ LET loaded == load_data(snapshot, io)
               IN  /\ documents' = loaded.documents
                   /\ vocabulary' = loaded.vocabulary
                   /\ idf_scores' = loaded.idf_scores
            /\ ret' = Return(TRUE, <<>>)
    /\ UNCHANGED <<snapshot, uuid_counter>>

DamageKinds == {"unparseable", "bad_vocabulary", "bad_documents"}

\* the snapshot file is damaged from outside the process: made unparseable,
\* or its vocabulary or its documents field replaced by something that is
\* not a list
DamageFile(how) ==
    /\ snapshot.kind = "json"
    /\ snapshot.vocabulary_ok
    /\ snapshot.documents_ok
    /\ op' = "damage_file"
    /\ UNCHANGED peer
    /\ arg' = [NoArg EXCEPT !.io = how]
    /\ snapshot' = IF how = "unparseable" THEN CorruptFile
                   ELSE IF how = "bad_vocabulary"
                        THEN [snapshot EXCEPT !.vocabulary_ok = FALSE]
                   ELSE [snapshot EXCEPT !.documents = <<>>,
                                         !.documents_ok = FALSE]
    /\ ret' = Return(TRUE, <<>>)
    /\ UNCHANGED <<store, uuid_counter>>

\* the index instance of another session takes the place of this one: the
\* fields of the two instances change places (each session of the
\* application constructs a VectorStore of its own on the one collection)
Switch ==
    /\ op' = "switch"
    /\ arg' = NoArg
    /\ ret' = Return(TRUE, <<>>)
    /\ documents' = peer.documents
    /\ vocabulary' = peer.vocabulary
    /\ idf_scores' = peer.idf_scores
    /\ peer' = [documents |-> documents, vocabulary |-> vocabulary,
                idf_scores |-> idf_scores]
    /\ UNCHANGED <<snapshot, uuid_counter>>

(***************************************************************************)
(* Specification                                                           *)
(***************************************************************************)
Init ==
    /\ documents = <<>>
    /\ vocabulary = {}
    /\ idf_scores = EmptyDict
    /\ snapshot = MissingFile
    /\ uuid_counter = 1
    /\ peer = load_data(MissingFile, "ok")
    /\ op = "construct"
    /\ arg = NoArg
    /\ ret = Return(TRUE, <<>>)

Next ==
    \/ \E batch \in Batches, io \in SaveIO : add_documents(batch, io)
    \/ \E query \in Queries, top_k \in TopKs : similarity_search(query, top_k)
    \/ \E io \in SaveIO : clear_collection(io)
    \/ \E io \in RemoveIO : delete_collection(io)
    \/ \E io \in LoadIO : Construct(io)
    \/ \E how \in DamageKinds : DamageFile(how)

Spec == Init /\ [][Next]_vars

\* two sessions on one collection: each has an index instance of its own,
\* both constructed before the snapshot file exists, and a request of
\* either session is served whole before the next one starts
SessionNext ==
    \/ \E batch \in Batches : add_documents(batch, "ok")
    \/ clear_collection("ok")
    \/ Construct("ok")
    \/ Switch

SessionSpec == Init /\ [][SessionNext]_vars

(***************************************************************************)
(* Properties                                                              *)
(***************************************************************************)
AllTokens(docs) == UNION {Range(Tokens(docs[i].content)) : i \in DOMAIN docs}

\* vocabulary and idf_scores are what a computation from scratch gives
DerivedStateOK ==
    /\ vocabulary = AllTokens(documents)
    /\ DOMAIN idf_scores = AllTokens(documents)
    /\ \A t \in DOMAIN idf_scores :
          idf_scores[t] =
              Log(Len(documents),
                  Cardinality({i \in DOMAIN documents :
                                  t \in Range(Tokens(documents[i].content))}))

SharesToken(text1, text2) ==
    Range(Tokens(text1)) \cap Range(Tokens(text2)) # {}

\* C1: on a one-chunk corpus whose index is consistent, a search (with room
\* for at least one result) for a query that shares a token with the chunk
\* returns exactly that chunk, with a positive score
C1_OneChunkCorpusIsFound ==
    ( /\ op = "similarity_search"
      /\ Len(documents) = 1
      /\ DerivedStateOK
      /\ arg.top_k >= 1
      /\ SharesToken(arg.query, documents[1].content) )
    => /\ Len(ret.results) = 1
       /\ ret.results[1].score.num > 0
       /\ ret.results[1].content = documents[1].content
       /\ (documents[1].content = S1 /\ arg.query = Q1
             => Contains(ret.results[1].content, PPE))

\* C2: add_documents, clear_collection and delete_collection keep vocabulary
\* and idf_scores equal to what the stored documents determine
C2_DerivedStatePreserved ==
    [][ ( /\ op' \in {"add_documents", "clear_collection", "delete_collection"}
          /\ DerivedStateOK )
        => DerivedStateOK' ]_vars

\* C3: an add_documents call that returns failure leaves documents,
\* vocabulary, idf_scores and the snapshot file as they were
C3_RejectedBatchNotApplied ==
    [][ (op' = "add_documents" /\ ~ret'.flag)
        => UNCHANGED <<documents, vocabulary, idf_scores, snapshot>> ]_vars

\* C4: when the snapshot cannot be written during add_documents or
\* clear_collection, the call returns failure and the in-memory index is
\* what it was before the call
C4_SaveFailureReported ==
    [][ (op' \in {"add_documents", "clear_collection"} /\ arg'.io # "ok")
        => (~ret'.flag /\ UNCHANGED <<documents, vocabulary, idf_scores>>) ]_vars

HasNonBlank(batch) ==
    \E i \in DOMAIN batch : batch[i].is_str /\ ~IsBlank(batch[i].content)

\* the non-blank chunks of a batch, in batch order
NonBlank(batch) ==
    SelectSeq(batch, LAMBDA c : c.is_str /\ ~IsBlank(c.content))

\* C5: add_documents succeeds exactly when the batch has a non-blank chunk,
\* and then appends exactly the non-blank chunks, in batch order, behind the
\* unchanged old documents
C5_AddAppendsNonBlank ==
    [][ op' = "add_documents"
        => /\ ret'.flag <=> HasNonBlank(arg'.batch)
           /\ ret'.flag =>
                LET kept == NonBlank(arg'.batch)
                IN  /\ Len(documents') = Len(documents) + Len(kept)
                    /\ SubSeq(documents', 1, Len(documents)) = documents
                    /\ \A i \in DOMAIN kept :
                          /\ documents'[Len(documents) + i].content = kept[i].content
                          /\ documents'[Len(documents) + i].metadata = kept[i].metadata ]_vars

InMemory == [documents |-> documents, vocabulary |-> vocabulary,
             idf_scores |-> idf_scores]

\* C6: after a successful add_documents or clear_collection the snapshot
\* file holds the current index: loading it gives the same documents,
\* vocabulary and idf_scores, and saving what was loaded rewrites the same file
C6_SnapshotRoundTrip ==
    [][ (op' \in {"add_documents", "clear_collection"} /\ ret'.flag)
        => /\ snapshot' = JsonFile(documents', vocabulary', idf_scores')
           /\ load_data(snapshot', "ok") = InMemory'
           /\ LET loaded == load_data(snapshot', "ok")
              IN  save_data(loaded.documents, loaded.vocabulary,
                            loaded.idf_scores, snapshot', "ok") = snapshot' ]_vars

\* the file is missing, unreadable, not JSON, or has a malformed field
FileUnusable(file, io) ==
    \/ file.kind # "json"
    \/ io = "read_error"
    \/ ~file.vocabulary_ok

\* C7: constructing an index on a missing, unreadable or corrupt snapshot
\* gives the empty index
C7_BadSnapshotStartsEmpty ==
    [][ (op' = "construct" /\ FileUnusable(snapshot, arg'.io))
        => /\ documents' = <<>>
           /\ vocabulary' = {}
           /\ idf_scores' = EmptyDict ]_vars

\* C8: every result of similarity_search has a positive score and shares a
\* token with the query; a stored chunk without a common token is absent
C8_ZeroSimilarityExcluded ==
    op = "similarity_search"
    => /\ \A i \in DOMAIN ret.results :
             /\ ret.results[i].score.num > 0
             /\ SharesToken(ret.results[i].content, arg.query)
       /\ \A d \in DOMAIN documents :
             ~SharesToken(documents[d].content, arg.query)
             => \A i \in DOMAIN ret.results :
                   ret.results[i].content # documents[d].content

\* Scenario 5: two documents with disjoint vocabularies are stored, the query
\* uses terms of a.pdf only, and the results are chunks of a.pdf only
C8_Witness ==
    /\ op = "similarity_search"
    /\ DerivedStateOK
    /\ \E a, b \in DOMAIN documents :
          /\ documents[a].metadata.filename = "a.pdf"
          /\ documents[b].metadata.filename = "b.pdf"
          /\ ~SharesToken(documents[a].content, documents[b].content)
          /\ SharesToken(documents[a].content, arg.query)
          /\ ~SharesToken(documents[b].content, arg.query)
    /\ ret.results # <<>>
    /\ \A i \in DOMAIN ret.results : ret.results[i].metadata.filename = "a.pdf"

\* the score of stored document i against the query of the last search
DocScore(i) ==
    Similarity(get_tfidf_vector(Tokens(arg.query), idf_scores),
               documents[i], idf_scores)
Positive == {i \in DOMAIN documents : DocScore(i).num > 0}
\* document j is ranked before document i
RankedBefore(j, i) ==
    \/ ScoreGreater(DocScore(j), DocScore(i))
    \/ DocScore(j) = DocScore(i) /\ j < i
Rank(i) == 1 + Cardinality({j \in Positive : RankedBefore(j, i)})
ResultOf(i) == [content |-> documents[i].content,
                metadata |-> documents[i].metadata,
                score |-> DocScore(i)]
NonIncreasing(results) ==
    \A k \in 1..(Len(results) - 1) :
        ~ScoreGreater(results[k + 1].score, results[k].score)

\* C9 as stated: results in non-increasing score order and never more than
\* top_k of them (none at all when top_k is negative)
C9_AtMostTopK ==
    op = "similarity_search"
    => /\ NonIncreasing(ret.results)
       /\ Len(ret.results) <= (IF arg.top_k >= 0 THEN arg.top_k ELSE 0)

\* C9 amended: the results are the chunks of positive similarity ranked by
\* score descending, ties in insertion order, cut to the first
\* min(top_k, positives) for top_k >= 0 and to all but the last -top_k for
\* top_k < 0
C9_RankedTopK ==
    op = "similarity_search"
    => LET n == Cardinality(Positive)
           expected == IF arg.top_k >= 0
                       THEN (IF arg.top_k < n THEN arg.top_k ELSE n)
                       ELSE (IF n + arg.top_k > 0 THEN n + arg.top_k ELSE 0)
       IN  /\ Len(ret.results) = expected
           /\ NonIncreasing(ret.results)
           /\ \A i \in Positive :
                 Rank(i) <= expected => ret.results[Rank(i)] = ResultOf(i)

\* two chunks of equal positive score, different content, and room for one
\* result only: the earlier inserted one is returned
C9_Witness ==
    /\ op = "similarity_search"
    /\ arg.top_k = 1
    /\ \E i, j \in Positive :
          /\ i < j
          /\ DocScore(i) = DocScore(j)
          /\ documents[i].content # documents[j].content
          /\ Rank(i) = 1
          /\ ret.results = <<ResultOf(i)>>

\* C10: a blank query, a query without a valid token and an empty corpus
\* each give the empty result
C10_NothingToRetrieve ==
    ( /\ op = "similarity_search"
      /\ \/ IsBlank(arg.query)
         \/ Tokens(arg.query) = <<>>
         \/ documents = <<>> )
    => ret.results = <<>>

\* a non-blank query without a valid token on a non-empty, consistent index
C10_Witness ==
    /\ op = "similarity_search"
    /\ documents # <<>>
    /\ DerivedStateOK
    /\ ~IsBlank(arg.query)
    /\ Tokens(arg.query) = <<>>
    /\ ret.results = <<>>

(***************************************************************************)
(* search_by_metadata                                                      *)
(***************************************************************************)
DefaultFilterTopK == 10
FilterTopKs == {1, DefaultFilterTopK}

\* metadata filters: a dictionary from keys to the values asked for
ByFilename == [filename |-> FileC]
ByPage == [page |-> <<"2">>]
ByFilenameAndPage == [filename |-> FileC, page |-> <<"3">>]
ByAuthor == [author |-> FileA]
Filters == {ByFilename, ByPage, ByFilenameAndPage, ByAuthor, EmptyDict}

\* variant: one matching key is enough
MetadataMatches_any_key(metadata, metadata_filter) ==
    \E key \in DOMAIN metadata_filter :
        key \in DOMAIN metadata /\ metadata[key] = metadata_filter[key]

\* "all(key in metadata and metadata[key] == value ...)"
MetadataMatches(metadata, metadata_filter) ==
    \A key \in DOMAIN metadata_filter :
        key \in DOMAIN metadata /\ metadata[key] = metadata_filter[key]

\* the matching documents in index order, each with score 1.0, cut to top_k
filtered_results(metadata_filter, top_k, docs) ==
    LET matching == SelectSeq(docs, LAMBDA doc :
                                 MetadataMatches(doc.metadata, metadata_filter))
    IN  SliceTo([i \in DOMAIN matching |->
                    [content |-> matching[i].content,
                     metadata |-> matching[i].metadata,
                     score |-> [num |-> 1, den |-> 1]]],
                top_k)

search_by_metadata(metadata_filter, top_k) ==
    /\ op' = "search_by_metadata"
    /\ UNCHANGED peer
    /\ arg' = [metadata_filter |-> metadata_filter, top_k |-> top_k]
    /\ ret' = Return(TRUE, filtered_results(metadata_filter, top_k, documents))
    /\ UNCHANGED <<store, snapshot, uuid_counter>>

\* The index under metadata searches: chunks of two files and a chunk
\* handed over without metadata (doc.get("metadata", {}) stores {} for it)
ChunkQ1 == [content |-> Q1, is_str |-> TRUE, metadata |-> Meta("a.pdf", "1")]
ChunkBare == [content |-> Q3, is_str |-> TRUE, metadata |-> EmptyDict]
FilterChunks == {ChunkS1, ChunkT3, ChunkQ1, ChunkBare}
FilterBatches == UNION {[1..n -> FilterChunks] : n \in 1..MaxBatch}

IndexFilters ==
    {[filename |-> "a.pdf"], [page |-> "2"],
     [filename |-> "a.pdf", page |-> "1"], [author |-> "a.pdf"], EmptyDict}
IndexFilterTopKs == {-1, 0, 1, DefaultFilterTopK}

FilterNext ==
    \/ \E batch \in FilterBatches : add_documents(batch, "ok")
    \/ \E metadata_filter \in IndexFilters, top_k \in IndexFilterTopKs :
          search_by_metadata(metadata_filter, top_k)

FilterSpec == Init /\ [][FilterNext]_vars

(***************************************************************************)
(* RAGSystem: add_document and query                                       *)
(***************************************************************************)
\* documents the index holds at most in a behaviour of the facade
MaxStored == 3
PreviewLen == 300

\* dict.get(key, default)
Get(dict, key, default) == IF key \in DOMAIN dict THEN dict[key] ELSE default

RECURSIVE JoinWith(_, _)
\* sep.join(parts)
JoinWith(parts, sep) ==
    IF parts = <<>> THEN <<>>
    ELSE IF Len(parts) = 1 THEN parts[1]
    ELSE parts[1] \o sep \o JoinWith(Tail(parts), sep)

\* the contents of the chunks the files give
ContentsOf(chunks) == {chunks[i].content : i \in DOMAIN chunks}
StoredContents == UNION {ContentsOf(ChunkTable[file]) : file \in Files}

\* utils.clean_text tabulated over them
CleanTable == [text \in StoredContents |-> clean_text(text)]
Cleaned(text) == CleanTable[text]

\* _prepare_context
prepare_context(retrieved_docs) ==
    LET part(i) ==
            DocumentLabel \o Str(i) \o <<":", " ">>
            \o Get(retrieved_docs[i].metadata, "filename", Unknown)
            \o PageLabel \o Get(retrieved_docs[i].metadata, "page", NA)
            \o <<"]", "\n">> \o Cleaned(retrieved_docs[i].content) \o <<"\n">>
    IN  JoinWith([i \in DOMAIN retrieved_docs |-> part(i)], Delimiter)

\* variant: the preview is the whole cleaned content
format_sources_untruncated(retrieved_docs) ==
    [i \in DOMAIN retrieved_docs |->
        [filename |-> Get(retrieved_docs[i].metadata, "filename", Unknown),
         page |-> Get(retrieved_docs[i].metadata, "page", NA),
         content |-> Cleaned(retrieved_docs[i].content),
         score |-> retrieved_docs[i].score]]

\* _format_sources
format_sources(retrieved_docs) ==
    [i \in DOMAIN retrieved_docs |->
        [filename |-> Get(retrieved_docs[i].metadata, "filename", Unknown),
         page |-> Get(retrieved_docs[i].metadata, "page", NA),
         content |-> SliceTo(Cleaned(retrieved_docs[i].content), PreviewLen),
         score |-> retrieved_docs[i].score]]

\* what generate_response does when it is called: it returns an answer, an
\* empty string or None, or raises
Generator == {"answer", "empty", "none", "raises"}

\* the result of query: flag is "not None"; results is what the ranker
\* returned, context what the generator was handed, generator_calls the
\* number of calls of generate_response
QueryReturn(flag, results, context, answer, sources, calls) ==
    [flag |-> flag, results |-> results, context |-> context,
     answer |-> answer, sources |-> sources, generator_calls |-> calls]

\* variant: a generator that fails is called a second time
query_result_retrying(retrieved_docs, gen) ==
    IF retrieved_docs = <<>>
    THEN QueryReturn(FALSE, retrieved_docs, <<>>, <<>>, <<>>, 0)
    ELSE LET context == prepare_context(retrieved_docs)
         IN  IF gen = "answer"
             THEN QueryReturn(TRUE, retrieved_docs, context, Answer,
                              format_sources(retrieved_docs), 1)
             ELSE QueryReturn(FALSE, retrieved_docs, context, <<>>, <<>>, 2)

\* query from "if not retrieved_docs" on
query_result(retrieved_docs, gen) ==
    IF retrieved_docs = <<>>
    THEN QueryReturn(FALSE, retrieved_docs, <<>>, <<>>, <<>>, 0)
    ELSE LET context == prepare_context(retrieved_docs)
         IN  IF gen = "answer"
             THEN QueryReturn(TRUE, retrieved_docs, context, Answer,
                              format_sources(retrieved_docs), 1)
             ELSE QueryReturn(FALSE, retrieved_docs, context, <<>>, <<>>, 1)

\* RAGSystem.query; an outcome of the generator other than "answer" is
\* drawn only when the generator is called
query(question, top_k, gen) ==
    LET retrieved_docs == search_results(question, top_k, documents, idf_scores)
    IN  /\ gen # "answer" => retrieved_docs # <<>>
        /\ op' = "query"
        /\ UNCHANGED peer
        /\ arg' = [question |-> question, top_k |-> top_k, generator |-> gen]
        /\ ret' = query_result(retrieved_docs, gen)
        /\ UNCHANGED <<store, snapshot, uuid_counter>>

\* the chunks as add_documents receives them
Batch(chunks) ==
    [i \in DOMAIN chunks |->
        [content |-> chunks[i].content, is_str |-> TRUE,
         metadata |-> chunks[i].metadata]]

\* add_document once the text is extracted and chunked, with add_documents
\* of the index in it; io is the outcome of writing the snapshot
add_chunks(file, io, text_content, batch) ==
    /\ Len(documents) + Len(batch) <= MaxStored
    /\ io # "ok" => ReachesSave(batch)
    /\ op' = "add_document"
    /\ UNCHANGED peer
    /\ arg' = [file |-> file, io |-> io]
    /\ IF text_content = <<>> \/ batch = <<>>
       THEN /\ ret' = Return(FALSE, <<>>)
            /\ UNCHANGED <<store, snapshot, uuid_counter>>
       ELSE LET st == AddLoop([documents |-> documents,
                               vocabulary |-> vocabulary,
                               uuid |-> uuid_counter, added_count |-> 0,
                               raised |-> FALSE], batch)
            IN  /\ documents' = st.documents
                /\ vocabulary' = st.vocabulary
                /\ uuid_counter' = st.uuid
                /\ IF ~st.raised /\ st.added_count > 0
                   THEN /\ idf_scores' = calculate_idf(st.documents, idf_scores)
                        /\ snapshot' = save_data(st.documents, st.vocabulary,
                                                 idf_scores', snapshot, io)
                        /\ ret' = Return(TRUE, <<>>)
                   ELSE /\ UNCHANGED <<idf_scores, snapshot>>
                        /\ ret' = Return(FALSE, <<>>)

\* RAGSystem.add_document
add_document(file, io) ==
    add_chunks(file, io, Extracted[file], Batch(ChunkTable[file]))

\* the facade on an index that starts empty; the snapshot is written without
\* error here, failures of the write being the subject of Spec
RagNext ==
    \/ \E file \in Files : add_document(file, "ok")
    \/ \E question \in Questions, top_k \in {1, DefaultTopK}, gen \in Generator :
          query(question, top_k, gen)
    \/ \E question \in Questions, top_k \in {1, DefaultTopK} :
          similarity_search(question, top_k)
    \/ \E metadata_filter \in Filters, top_k \in FilterTopKs :
          search_by_metadata(metadata_filter, top_k)

RagSpec == Init /\ [][RagNext]_vars

(***************************************************************************)
(* The chunker on its own: create_chunks applied to texts put together     *)
(* from a few sentences and page markers, under several configurations     *)
(***************************************************************************)
\* pieces joined into one text
MaxPieces == 3

SentA == Rep("a", 39) \o <<".">>
SentC == Rep("c", 69) \o <<"!">>
SentD == Rep("d", 8) \o <<".">>
\* two sentences
SentE == Rep("e", 20) \o <<".", " ">> \o Rep("e", 22) \o <<"?">>
Page1 == MarkerHead \o <<"1", "]">>
Page2 == MarkerHead \o <<"0", "2", "]">>
\* a page that holds one long sentence
PagedC == Page2 \o <<" ">> \o SentC
Pieces == {SentA, SentC, SentD, SentE, Page1, Page2, PagedC}

RECURSIVE JoinPieces(_)
JoinPieces(pieces) ==
    IF pieces = <<>> THEN <<>>
    ELSE IF Len(pieces) = 1 THEN pieces[1]
    ELSE pieces[1] \o <<" ">> \o JoinPieces(Tail(pieces))

ChunkerTexts ==
    {JoinPieces(p) : p \in UNION {[1..n -> Pieces] : n \in 0..MaxPieces}}

Processors == {DefaultProcessor,
               Processor(60, 10), Processor(60, 100), Processor(20, 5)}

ChunkerInputs ==
    [processor : Processors, text : ChunkerTexts, filename : {FileA}]

\* a processor is constructed and handed a text
ChunkerInit ==
    /\ documents = <<>>
    /\ vocabulary = {}
    /\ idf_scores = EmptyDict
    /\ snapshot = MissingFile
    /\ uuid_counter = 1
    /\ peer = load_data(MissingFile, "ok")
    /\ op = "processor"
    /\ arg \in ChunkerInputs
    /\ ret = [chunks |-> <<>>]

\* self.create_chunks(text, filename)
CreateChunks ==
    /\ op = "processor"
    /\ op' = "create_chunks"
    /\ UNCHANGED peer
    /\ ret' = [chunks |-> create_chunks(arg.processor, arg.text, arg.filename)]
    /\ UNCHANGED <<store, snapshot, uuid_counter, arg>>

ChunkerNext == CreateChunks

ChunkerSpec == ChunkerInit /\ [][ChunkerNext]_vars


(***************************************************************************)
(* Properties of the chunker                                               *)
(***************************************************************************)
Called == op = "create_chunks"
Contents(chunks) == [i \in DOMAIN chunks |-> chunks[i].content]
HasMarker(text) == Len(SplitPages(text)) > 1

\* the page regions of a text with markers: the numeral of the page number
\* and the trimmed text behind the marker
RegionsOf(text) ==
    LET pages == SplitPages(text)
    IN  [k \in 1..((Len(pages) - 1) \div 2) |->
            [page |-> Str(ParseInt(pages[2 * k], 0)),
             text |-> Strip(pages[2 * k + 1])]]

\* the sentences of a text: the trimmed, non-empty pieces between separators
SentencesOf(text) ==
    LET pieces == SplitSentences(text)
    IN  SelectSeq([i \in DOMAIN pieces |-> Strip(pieces[i])], LAMBDA x : x # <<>>)

\* the segments longer than the minimum, trimmed
LongEnough(segments) ==
    LET long == SelectSeq(segments, LAMBDA x : Len(Strip(x)) > MinChunkLen)
    IN  [i \in DOMAIN long |-> Strip(long[i])]

\* C16: every chunk create_chunks returns is longer than 50 characters
\* after trimming, and dropping a shorter segment costs nothing else: in
\* a text without page markers the segments that are long enough are
\* all returned, in order
C16_ShortSegmentsDropped ==
    Called
    => /\ \A i \in DOMAIN ret.chunks :
             Len(Strip(ret.chunks[i].content)) > MinChunkLen
       /\ ~HasMarker(arg.text)
             => Contents(ret.chunks)
                  = LongEnough(split_text_into_chunks(arg.processor, arg.text))

\* a segment of exactly 50 characters is dropped and a later one is returned
C16_Witness ==
    /\ Called
    /\ ~HasMarker(arg.text)
    /\ ret.chunks # <<>>
    /\ \E i \in DOMAIN split_text_into_chunks(arg.processor, arg.text) :
          Len(split_text_into_chunks(arg.processor, arg.text)[i]) = MinChunkLen

\* C17: with a page marker in the text every chunk carries the page number
\* of a marker and is text of that marker's region; the page is "N/A" only
\* when the text has no marker
C17_PageProvenance ==
    Called
    => \A i \in DOMAIN ret.chunks :
          LET chunk == ret.chunks[i]
              regions == RegionsOf(arg.text)
          IN  IF HasMarker(arg.text)
              THEN \E k \in DOMAIN regions :
                      /\ chunk.metadata.page = regions[k].page
                      /\ Contains(regions[k].text, chunk.content)
              ELSE chunk.metadata.page = NA

\* C18: every chunk is at most chunk_size plus the length of one sentence
\* of the text long, or is one sentence longer than chunk_size
C18_ChunkSizeBound ==
    Called
    => \A i \in DOMAIN ret.chunks :
          LET content == ret.chunks[i].content
              sentences == SentencesOf(arg.text)
          IN  \/ \E k \in DOMAIN sentences :
                    Len(content) <= arg.processor.chunk_size + Len(sentences[k])
              \/ /\ Len(SentencesOf(content)) = 1
                 /\ Len(content) > arg.processor.chunk_size

\* C19: in a text of one page region (no marker) every chunk after the
\* first starts with the overlap taken from the end of the chunk before
\* it: its last sentence when one fits in the window, else its last
\* chunk_overlap characters, else the whole of it
C19_ConsecutiveChunksOverlap ==
    (Called /\ ~HasMarker(arg.text))
    => \A i \in 1..(Len(ret.chunks) - 1) :
          StartsWith(ret.chunks[i + 1].content,
                     Strip(get_overlap_text(arg.processor, ret.chunks[i].content)))

\* the texts chunked one by one, each with its page: the regions of the
\* markers, or the whole text when it has no marker
PageRegions(text) ==
    IF HasMarker(text) THEN RegionsOf(text)
    ELSE <<[page |-> NA, text |-> text]>>

RegionTexts(text) == [k \in DOMAIN PageRegions(text) |-> PageRegions(text)[k].text]

\* C20 as stated: a sentence longer than chunk_size is a chunk by itself
C20_LongSentenceAlone ==
    Called
    => \A r \in DOMAIN RegionTexts(arg.text) :
          LET sentences == SentencesOf(RegionTexts(arg.text)[r])
          IN  \A k \in DOMAIN sentences :
                 Len(sentences[k]) > arg.processor.chunk_size
                 => \E i \in DOMAIN ret.chunks :
                       ret.chunks[i].content = sentences[k]

\* C20: a sentence longer than chunk_size and longer than 50 characters is
\* whole in a chunk of its region's page: the chunk is the sentence itself
\* when the sentence is the first of its region, and else the sentence
\* behind a space and at most chunk_overlap characters taken from the chunk
\* before it; nothing follows the sentence in that chunk
C20_LongSentenceWhole ==
    Called
    => \A r \in DOMAIN PageRegions(arg.text) :
          LET region == PageRegions(arg.text)[r]
              sentences == SentencesOf(region.text)
          IN  \A k \in DOMAIN sentences :
                 LET sentence == sentences[k]
                 IN  (/\ Len(sentence) > arg.processor.chunk_size
                      /\ Len(sentence) > MinChunkLen)
                     => \E i \in DOMAIN ret.chunks :
                           LET content == ret.chunks[i].content
                           IN  /\ ret.chunks[i].metadata.page = region.page
                               /\ EndsWith(content, sentence)
                               /\ k = 1 => content = sentence
                               /\ content # sentence
                                     => EndsWith(content, <<" ">> \o sentence)
                               /\ Len(content) <= arg.processor.chunk_overlap
                                                    + 1 + Len(sentence)

\* a sentence longer than chunk_size that follows another one in a region
\* behind a marker, returned behind the overlap of the chunk before it
C20_Witness ==
    /\ Called
    /\ HasMarker(arg.text)
    /\ \E r \in DOMAIN PageRegions(arg.text) :
          LET region == PageRegions(arg.text)[r]
              sentences == SentencesOf(region.text)
          IN  \E k \in 2..Len(sentences) :
                 /\ Len(sentences[k]) > arg.processor.chunk_size
                 /\ Len(sentences[k]) > MinChunkLen
                 /\ \E i \in DOMAIN ret.chunks :
                       /\ ret.chunks[i].metadata.page = region.page
                       /\ ret.chunks[i].content # sentences[k]
                       /\ EndsWith(ret.chunks[i].content,
                                   <<" ">> \o sentences[k])

\* the whole text as one region without a page
WholeText(text) == <<[page |-> NA, text |-> text]>>

\* the sentences of the regions, each named by region and place in it
Slots(regions) ==
    UNION {{<<r, k>> : k \in DOMAIN SentencesOf(regions[r].text)} :
              r \in DOMAIN regions}

Before(s, t) == s[1] < t[1] \/ (s[1] = t[1] /\ s[2] < t[2])

\* the chunk has the page of the region and ends at that sentence of it
EndsAt(chunk, regions, s) ==
    /\ chunk.metadata.page = regions[s[1]].page
    /\ EndsWith(chunk.content, SentencesOf(regions[s[1]].text)[s[2]])

RECURSIVE LaidOut(_, _, _)
\* the chunks end at sentences of the regions that follow one another in
\* the text, the first of them behind the place "last"
LaidOut(chunks, regions, last) ==
    IF chunks = <<>> THEN TRUE
    ELSE LET ends == {s \in Slots(regions) :
                         Before(last, s) /\ EndsAt(Head(chunks), regions, s)}
             first == CHOOSE s \in ends : \A t \in ends : s = t \/ Before(s, t)
         IN  ends # {} /\ LaidOut(Tail(chunks), regions, first)

\* the chunks follow the text: region by region in the order of the markers
\* (or over the whole text), and inside a region sentence by sentence
InTextOrder(chunks, text) ==
    \/ LaidOut(chunks, RegionsOf(text), <<0, 0>>)
    \/ LaidOut(chunks, WholeText(text), <<0, 0>>)

PageNumber(chunk) == ParseInt(chunk.metadata.page, 0)

\* the page numbers of the chunks never go down
PagesAscend(chunks) ==
    \A i, j \in DOMAIN chunks :
       (i < j /\ chunks[i].metadata.page # NA /\ chunks[j].metadata.page # NA)
       => PageNumber(chunks[i]) <= PageNumber(chunks[j])

\* C21 as stated: the chunks are in ascending order of page number and in
\* the order of the text inside a page, whatever the order of the markers
C21_PageAscending ==
    Called => (PagesAscend(ret.chunks) /\ InTextOrder(ret.chunks, arg.text))

\* C21: the chunks are in the order of the text: those of a marker's region
\* come before those of every later marker's region, whatever the page
\* numbers are, and inside one region every chunk ends at a later sentence
\* than the chunk before it
C21_InputOrder ==
    Called => InTextOrder(ret.chunks, arg.text)

\* page 2 is marked before page 1 and both give a chunk
C21_Witness ==
    /\ Called
    /\ Len(ret.chunks) >= 2
    /\ LaidOut(ret.chunks, RegionsOf(arg.text), <<0, 0>>)
    /\ PageNumber(ret.chunks[1]) > PageNumber(ret.chunks[2])

(***************************************************************************)
(* Properties of the facade                                                *)
(***************************************************************************)
Readers == {"similarity_search", "search_by_metadata", "query"}

\* C11: similarity_search, search_by_metadata and query leave documents,
\* vocabulary, idf_scores and the snapshot file as they were, and a call
\* repeated with the same arguments returns what the call before it returned
C11_QueriesReadOnly ==
    [][op' \in Readers
          => /\ UNCHANGED <<documents, vocabulary, idf_scores, snapshot>>
             /\ (op = op' /\ arg = arg') => ret' = ret]_vars

\* a search over stored chunks that ranked two of them, the snapshot written
C11_Witness ==
    /\ op = "similarity_search"
    /\ Len(ret.results) >= 2
    /\ snapshot = JsonFile(documents, vocabulary, idf_scores)

\* C12: query returns None exactly when the ranker returned nothing or the
\* generator raised or returned an empty answer or None; generate_response
\* is called at most once, and not at all when the ranker returned nothing,
\* as on an empty corpus
C12_NullExactlyOnFailure ==
    op = "query"
    => /\ ~ret.flag <=> (ret.results = <<>> \/ arg.generator # "answer")
       /\ ret.generator_calls <= 1
       /\ ret.results = <<>> => ret.generator_calls = 0
       /\ documents = <<>> => (~ret.flag /\ ret.generator_calls = 0)

\* the ranker returned results and the generator, called once, raised
C12_Witness ==
    /\ op = "query"
    /\ arg.generator = "raises"
    /\ ret.results # <<>>
    /\ ~ret.flag
    /\ ret.generator_calls = 1

\* the block of the i-th ranked result in the context
ContextBlock(i, result) ==
    DocumentLabel \o Str(i) \o <<":", " ">> \o result.metadata.filename
    \o PageLabel \o result.metadata.page \o <<"]", "\n">>
    \o Cleaned(result.content) \o <<"\n">>

RECURSIVE BlockStart(_, _)
\* where the block of the i-th result starts when the blocks before it are
\* each followed by the delimiter
BlockStart(results, i) ==
    IF i = 1 THEN 1
    ELSE BlockStart(results, i - 1) + Len(ContextBlock(i - 1, results[i - 1]))
         + Len(Delimiter)

\* C13: a result of query that is not None has one source per ranked
\* result, in ranked order, with its filename, page and score and the first
\* 300 characters at most of its cleaned content; the context lists the
\* results in the same order, each behind its filename and page, with the
\* delimiter between two of them
C13_SourcesEchoResults ==
    (op = "query" /\ ret.flag)
    => LET results == ret.results
           n == Len(results)
       IN  /\ Len(ret.sources) = n
           /\ \A i \in 1..n :
                 /\ ret.sources[i].filename = results[i].metadata.filename
                 /\ ret.sources[i].page = results[i].metadata.page
                 /\ ret.sources[i].score = results[i].score
                 /\ Len(ret.sources[i].content) <= PreviewLen
                 /\ StartsWith(Cleaned(results[i].content), ret.sources[i].content)
                 /\ Len(Cleaned(results[i].content)) >= PreviewLen
                       => Len(ret.sources[i].content) = PreviewLen
                 /\ Len(Cleaned(results[i].content)) < PreviewLen
                       => ret.sources[i].content = Cleaned(results[i].content)
                 /\ MatchAt(ret.context, BlockStart(results, i),
                            ContextBlock(i, results[i]))
                 /\ i < n => MatchAt(ret.context,
                                     BlockStart(results, i)
                                        + Len(ContextBlock(i, results[i])),
                                     Delimiter)
           /\ Len(ret.context)
                 = BlockStart(results, n) + Len(ContextBlock(n, results[n])) - 1

\* two ranked results, one with more than 300 characters of cleaned content
C13_Witness ==
    /\ op = "query"
    /\ ret.flag
    /\ Len(ret.sources) >= 2
    /\ \E i \in DOMAIN ret.sources :
          /\ Len(Cleaned(ret.results[i].content)) > PreviewLen
          /\ Len(ret.sources[i].content) = PreviewLen

\* a file that gives no text: it cannot be read, or no page of it has text
YieldsNoText(file) ==
    \/ ~file.readable
    \/ \A k \in DOMAIN file.pages :
          file.pages[k].raises \/ IsBlank(file.pages[k].text)

\* C14 as stated: add_document of a file that cannot be read or of a PDF
\* without extractable text returns False and leaves the index unchanged
C14_NoTextRejected ==
    [][(op' = "add_document" /\ YieldsNoText(arg'.file))
          => (~ret'.flag /\ UNCHANGED store)]_vars

\* every segment of every page region of the text is 50 characters long
\* at most after trimming
AllSegmentsShort(text) ==
    \A r \in DOMAIN RegionTexts(text) :
        LET segments == split_text_into_chunks(DefaultProcessor,
                                               RegionTexts(text)[r])
        IN  \A i \in DOMAIN segments : Len(Strip(segments[i])) <= MinChunkLen

\* C15 as stated: add_document of a file whose text gives short segments
\* only returns False and leaves the size of the index unchanged
C15_ShortChunksRejected ==
    [][(op' = "add_document" /\ ~YieldsNoText(arg'.file)
           /\ AllSegmentsShort(Extracted[arg'.file]))
          => (~ret'.flag /\ Len(documents') = Len(documents))]_vars

(***************************************************************************)
(* Properties of sessions that share one collection                        *)
(***************************************************************************)
\* the chunks of docs are all among those of later
KeptIn(docs, later) ==
    \A i \in DOMAIN docs : \E j \in DOMAIN later : later[j] = docs[i]

\* C22: with two sessions on one collection, a successful add_documents of
\* either keeps in the snapshot every chunk the snapshot held before it, so
\* that after a successful insert of each the snapshot holds the chunks of
\* both, and the idf_scores of the snapshot are those of its documents
C22_SnapshotHoldsBoth ==
    [][ (op' = "add_documents" /\ ret'.flag /\ snapshot.kind = "json")
        => /\ snapshot'.kind = "json"
           /\ KeptIn(snapshot.documents, snapshot'.documents)
           /\ snapshot'.idf_scores = IdfTable(snapshot'.documents) ]_vars

(***************************************************************************)
(* Properties of the index: errors, clearing, identifiers                  *)
(***************************************************************************)
\* C23: no operation raises: construction, add_documents, similarity_search,
\* clear_collection and delete_collection each end with a return value,
\* whatever the batch, the query, the outcome of the file system call and
\* the content of the snapshot file are
C23_NothingRaised == "raised" \notin DOMAIN ret

\* an index constructed now on the collection would hold no chunk
LoadsEmpty == load_data(snapshot, "ok").documents = <<>>

\* the index holds nothing, in memory and in the snapshot
Emptied ==
    /\ documents = <<>>
    /\ vocabulary = {}
    /\ idf_scores = EmptyDict
    /\ LoadsEmpty

SuccessfulInsert == op = "add_documents" /\ ret.flag

\* C24: clear_collection returns success and leaves documents, vocabulary
\* and idf_scores empty in memory and in the snapshot, so that a new index
\* on the collection is empty; the operation after it, unless it is a
\* successful insert, finds and leaves the collection empty: size 0 and no
\* search result
C24_ClearedStaysEmpty ==
    [][ /\ op' = "clear_collection" => (ret'.flag /\ Emptied')
        /\ (op = "clear_collection" /\ ~SuccessfulInsert')
              => /\ documents' = <<>>
                 /\ LoadsEmpty'
                 /\ op' = "similarity_search" => ret'.results = <<>> ]_vars

\* the identifiers of the chunks of a list
Ids(docs) == {docs[i].id : i \in DOMAIN docs}

DistinctIds(docs) ==
    \A i, j \in DOMAIN docs : i # j => docs[i].id # docs[j].id

\* the chunks the snapshot file holds
SnapshotDocs == IF snapshot.kind = "json" THEN snapshot.documents ELSE <<>>

\* the chunks held in memory, by this session or another, or in the snapshot
Held == Range(documents) \cup Range(peer.documents) \cup Range(SnapshotDocs)

\* C26: the stored chunks have pairwise distinct identifiers, in memory and
\* in the snapshot; a chunk that is stored after a step under an identifier
\* held before the step is that chunk unchanged, and every other stored
\* chunk has an identifier assigned in this step that no chunk had before
\* (uuid_counter counts the identifiers assigned so far; uuid4 is taken
\* never to repeat one)
C26_IdentifiersNeverReused ==
    [][ /\ DistinctIds(documents')
        /\ DistinctIds(SnapshotDocs')
        /\ \A chunk \in Held' :
              IF chunk.id \in {held.id : held \in Held}
              THEN chunk \in Held
              ELSE uuid_counter <= chunk.id /\ chunk.id < uuid_counter' ]_vars

\* a chunk is inserted after the chunk inserted first is gone (cleared,
\* deleted or lost with the snapshot): it is stored under the second
\* identifier
C26_Witness ==
    /\ op = "add_documents"
    /\ ret.flag
    /\ Len(documents) = 1
    /\ documents[1].id = 2
    /\ SnapshotDocs = documents

(***************************************************************************)
(* Properties of search_by_metadata                                        *)
(***************************************************************************)
\* the places of the stored chunks whose metadata has every key of the
\* filter with the value the filter asks for
MatchingPlaces ==
    {i \in DOMAIN documents :
        \A key \in DOMAIN arg.metadata_filter :
           /\ key \in DOMAIN documents[i].metadata
           /\ documents[i].metadata[key] = arg.metadata_filter[key]}

\* the place of the n-th matching chunk in insertion order
NthMatch(n) ==
    CHOOSE i \in MatchingPlaces :
       Cardinality({j \in MatchingPlaces : j <= i}) = n

\* the results are the first "count" matching chunks, each with score 1.0
FirstMatches(count) ==
    /\ Len(ret.results) = count
    /\ \A n \in DOMAIN ret.results :
          /\ ret.results[n].content = documents[NthMatch(n)].content
          /\ ret.results[n].metadata = documents[NthMatch(n)].metadata
          /\ ret.results[n].score = [num |-> 1, den |-> 1]

AtMost(n, limit) == IF n < limit THEN n ELSE limit
AtLeastZero(n) == IF n < 0 THEN 0 ELSE n

\* C25 as stated: the results are the first top_k matching chunks (all of
\* them when there are fewer, none when top_k is not positive)
C25_FirstTopKMatches ==
    op = "search_by_metadata"
    => FirstMatches(AtLeastZero(AtMost(Cardinality(MatchingPlaces), arg.top_k)))

\* C25: for top_k >= 0 the results are the first top_k matching chunks in
\* insertion order (all of them when there are fewer), for top_k < 0 all
\* matching chunks but the last -top_k; each has score 1.0, and a chunk
\* that lacks a key of the filter or has another value for it is absent
C25_MatchesCutAsSlice ==
    op = "search_by_metadata"
    => LET matches == Cardinality(MatchingPlaces)
       IN  IF arg.top_k >= 0
           THEN FirstMatches(AtMost(matches, arg.top_k))
           ELSE FirstMatches(AtLeastZero(matches + arg.top_k))

\* two stored chunks of one file match the filter on its name and the
\* limit cuts the results to the first of them
C25_Witness ==
    /\ op = "search_by_metadata"
    /\ arg.top_k = 1
    /\ arg.metadata_filter # EmptyDict
    /\ Cardinality(MatchingPlaces) = 2
    /\ Len(ret.results) = 1
    /\ documents[1].content # documents[2].content

====
